---- MODULE Spec2Model ----
(***************************************************************************)
(* A model of the EAS SDK's identifier derivation, EIP-712 typed-data      *)
(* handler and schema registry client.                                     *)
(*                                                                         *)
(* Data representation.  A byte string is a sequence of bytes 0..255 and a *)
(* hex string a sequence of hex digits 0..15.  Keccak-256 is an ideal      *)
(* hash: a digest is a term that carries its preimage, written as a mark,  *)
(* a number from -1000 down that tells the length of what it carries, and  *)
(* the preimage after it.  There are three kinds of mark, told apart by    *)
(* the mark's remainder by three: a digest in a byte string, which stands  *)
(* for 32 bytes; a digest in a hex string, which stands for 64 digits; and *)
(* in a byte string the bytes of a run of digits whose digests lie across  *)
(* the byte boundaries, which carries that run.  Two digests are equal     *)
(* exactly when their preimages are.  Text strings are sequences of        *)
(* Unicode code points.                                                    *)
(***************************************************************************)
EXTENDS Integers, Sequences, FiniteSets, Bags, TLC

VARIABLES
    uidCall,      \* utils: the latest getUID call, its arguments and its result
    uidPrev,      \* utils: the first getUID call
    sepA,         \* a handler's config and the domain separator it returned
    sepB,         \* the same of a second handler
    config,       \* TypedDataHandler.config of the handler under test
    ctorConfig,   \* the value that was passed to its constructor
    signCalls,    \* the signTypedDataRequest calls in flight (awaiting their signers)
    last,         \* the handler call that completed latest and what it ended in
    registry,     \* the registry contract's stored schema records
    mempool,      \* the register transactions that were sent and are not yet mined
    regCalls,     \* the SchemaRegistry calls in flight (awaiting the contract)
    regLast       \* the SchemaRegistry call that completed latest and its outcome

\* what each component leaves alone
notHandler == <<uidCall, uidPrev, sepA, sepB, registry, mempool, regCalls, regLast>>
notUID == <<sepA, sepB, config, ctorConfig, signCalls, last, registry, mempool, regCalls,
           regLast>>
notDomain == <<uidCall, uidPrev, config, ctorConfig, signCalls, last, registry, mempool,
              regCalls, regLast>>
notRegistry == <<uidCall, uidPrev, sepA, sepB, config, ctorConfig, signCalls, last>>

vars == <<uidCall, uidPrev, sepA, sepB, config, ctorConfig, signCalls, last,
          registry, mempool, regCalls, regLast>>

----------------------------------------------------------------------------
(* Chunks, bytes and hex strings *)

Byte(n) == n
Digest(pre) == <<-(1000 + (3 * Len(pre)))>> \o pre
DigestHex(pre) == <<-(1001 + (3 * Len(pre)))>> \o pre

\* the bytes of a run of digits that is a digit, one digest or more, and a
\* digit: the first and the last byte hold a digit each and four bits of a
\* digest, the bytes between them the rest of the digests
Packed(run) == <<-(1002 + (3 * Len(run)))>> \o run

\* a mark, the length of what follows it, and whether it is one of Packed
IsMark(x) == x <= -1000
PreimageLength(mark) == ((-mark) - 1000) \div 3
IsPacked(mark) == ((-mark) - 1000) % 3 = 2

ZeroHex(n) == [i \in 1..n |-> 0]

\* A call that throws yields, in place of its bytes, a one-element sequence
\* that names the error; the callers hand it on as an exception travels.
HexOddLength == <<-9>>
InvalidArrayify == <<-10>>
ValueOutOfRange == <<-11>>
InvalidValue == <<-12>>
InvalidAddress == <<-13>>
IncorrectDataLength == <<-14>>
ValueOutOfBounds == <<-15>>
InvalidUtf8String == <<-16>>
WrongNumberOfValues == <<-17>>
TypesValuesLengthMismatch == <<-18>>
BadAddressChecksum == <<-19>>
ValueOutOfBoundsForUint256 == <<-20>>
IsFailure(x) == Len(x) = 1 /\ x[1] < -8 /\ ~IsMark(x[1])

\* the message of the error
ErrorText(failure) ==
    CASE failure = HexOddLength -> "hex data is odd-length"
      [] failure = InvalidArrayify -> "invalid arrayify value"
      [] failure = ValueOutOfRange -> "value out of range"
      [] failure = InvalidValue -> "invalid value"
      [] failure = InvalidAddress -> "invalid address"
      [] failure = IncorrectDataLength -> "incorrect data length"
      [] failure = ValueOutOfBounds -> "value out-of-bounds"
      [] failure = InvalidUtf8String -> "invalid utf-8 string"
      [] failure = WrongNumberOfValues -> "wrong number of values"
      [] failure = TypesValuesLengthMismatch -> "types/values length mismatch"
      [] failure = BadAddressChecksum -> "bad address checksum"
      [] failure = ValueOutOfBoundsForUint256 -> "value out-of-bounds for uint256"

\* a \o b, unless the evaluation of a or then of b threw
Cat(a, b) == IF IsFailure(a) THEN a ELSE IF IsFailure(b) THEN b ELSE a \o b

\* the position of the first mark from position i on, or one past the end;
\* position i is outside every preimage, so that mark is too
NextMark(str, i) ==
    IF \A j \in i..Len(str) : ~IsMark(str[j]) THEN Len(str) + 1
    ELSE CHOOSE j \in i..Len(str) :
            IsMark(str[j]) /\ \A k \in i..(j - 1) : ~IsMark(str[k])

RECURSIVE DigitCount(_, _, _)
\* the number of digits that positions i..to of a hex string stand for: a
\* digest counts 64 digits
DigitCount(hex, i, to) ==
    IF i > to THEN 0
    ELSE IF IsMark(hex[i])
    THEN 64 + DigitCount(hex, i + PreimageLength(hex[i]) + 1, to)
    ELSE 1 + DigitCount(hex, i + 1, to)

RECURSIVE ByteCount(_, _)
\* the number of bytes that a byte string stands for from position i on: a
\* digest counts 32 bytes, whatever its preimage, and a packed run half the
\* number of its digits
ByteCount(bytes, i) ==
    IF i > Len(bytes) THEN 0
    ELSE IF IsMark(bytes[i])
    THEN LET next == i + PreimageLength(bytes[i]) + 1
         IN  (IF IsPacked(bytes[i]) THEN DigitCount(bytes, i + 1, next - 1) \div 2 ELSE 32)
             + ByteCount(bytes, next)
    ELSE LET j == NextMark(bytes, i)
         IN  (j - i) + ByteCount(bytes, j)

\* the number of bytes a byte string stands for
ByteLength(bytes) == ByteCount(bytes, 1)

\* two plain digits make one byte
PlainBytes(hex) == [i \in 1..(Len(hex) \div 2) |-> Byte((16 * hex[2 * i - 1]) + hex[2 * i])]

\* one plain byte makes two digits
PlainHex(bytes) ==
    [i \in 1..(2 * Len(bytes)) |->
        IF i % 2 = 1 THEN bytes[(i + 1) \div 2] \div 16
                     ELSE bytes[i \div 2] % 16]

RECURSIVE SkipDigests(_, _)
\* the first position from i on that is not of a digest, or one past the end
SkipDigests(hex, i) ==
    IF i > Len(hex) \/ ~IsMark(hex[i]) THEN i
    ELSE SkipDigests(hex, i + PreimageLength(hex[i]) + 1)

RECURSIVE ArrayifyFrom(_, _)
\* the bytes of the digits from position i on, a position where a byte
\* starts.  Plain digits pair up and a digest there stays the digest it is.
\* When the plain digits up to the next digest are odd in number, the last of
\* them shares its byte with that digest, and the digests from there on lie
\* across the bytes up to the next plain digit: these are the bytes of a
\* packed run.  A string that ends before that digit has an odd number of
\* digits, an error.
ArrayifyFrom(hex, i) ==
    IF i > Len(hex) THEN <<>>
    ELSE IF IsMark(hex[i])
    THEN LET next == i + PreimageLength(hex[i]) + 1
         IN  Cat(Digest(SubSeq(hex, i + 1, next - 1)), ArrayifyFrom(hex, next))
    ELSE LET j == NextMark(hex, i)
         IN  IF (j - i) % 2 = 0
             THEN Cat(PlainBytes(SubSeq(hex, i, j - 1)), ArrayifyFrom(hex, j))
             ELSE LET end == SkipDigests(hex, j)
                  IN  IF end > Len(hex) THEN HexOddLength
                      ELSE Cat(PlainBytes(SubSeq(hex, i, j - 2))
                                   \o Packed(SubSeq(hex, j - 1, end)),
                               ArrayifyFrom(hex, end + 1))

\* ethers utils.arrayify on a hex string: two digits make one byte, and an
\* odd number of digits is an error
Arrayify(hex) == IF IsFailure(hex) THEN hex ELSE ArrayifyFrom(hex, 1)

RECURSIVE HexlifyFrom(_, _)
\* the digits of the bytes from position i on; a packed run gives its digits
HexlifyFrom(bytes, i) ==
    IF i > Len(bytes) THEN <<>>
    ELSE IF IsMark(bytes[i])
    THEN LET next == i + PreimageLength(bytes[i]) + 1
             carried == SubSeq(bytes, i + 1, next - 1)
         IN  (IF IsPacked(bytes[i]) THEN carried ELSE DigestHex(carried))
             \o HexlifyFrom(bytes, next)
    ELSE LET j == NextMark(bytes, i)
         IN  PlainHex(SubSeq(bytes, i, j - 1)) \o HexlifyFrom(bytes, j)

\* ethers utils.hexlify on a byte string: one byte makes two digits
Hexlify(bytes) == IF IsFailure(bytes) THEN bytes ELSE HexlifyFrom(bytes, 1)

\* ethers utils.keccak256: bytes in, the digest as a hex string out
Keccak256(bytes) == IF IsFailure(bytes) THEN bytes ELSE DigestHex(bytes)

IsHighSurrogate(cp) == cp >= 55296 /\ cp < 56320
IsLowSurrogate(cp) == cp >= 56320 /\ cp < 57344

\* the UTF-8 encoding of one code point: one to four bytes.  A high surrogate
\* that stands alone is an error.
Utf8Of(cp) ==
    IF cp < 128 THEN <<Byte(cp)>>
    ELSE IF cp < 2048 THEN <<Byte(192 + (cp \div 64)), Byte(128 + (cp % 64))>>
    ELSE IF IsHighSurrogate(cp) THEN InvalidUtf8String
    ELSE IF cp < 65536
    THEN <<Byte(224 + (cp \div 4096)), Byte(128 + ((cp \div 64) % 64)), Byte(128 + (cp % 64))>>
    ELSE <<Byte(240 + (cp \div 262144)), Byte(128 + ((cp \div 4096) % 64)),
           Byte(128 + ((cp \div 64) % 64)), Byte(128 + (cp % 64))>>

\* the bytes that position i of a well-formed string gives: a high surrogate
\* gives, with the low surrogate after it, the bytes of the code point they
\* spell, and that low surrogate gives none of its own
Utf8At(str, i) ==
    IF IsHighSurrogate(str[i])
    THEN Utf8Of(65536 + ((str[i] - 55296) * 1024) + (str[i + 1] - 56320))
    ELSE IF IsLowSurrogate(str[i]) /\ i > 1 /\ IsHighSurrogate(str[i - 1]) THEN <<>>
    ELSE Utf8Of(str[i])

RECURSIVE Utf8From(_, _, _)
\* the bytes of positions from..to of a well-formed string
Utf8From(str, from, to) ==
    IF from > to THEN <<>>
    ELSE IF from = to THEN Utf8At(str, from)
    ELSE LET mid == (from + to) \div 2
         IN  Utf8From(str, from, mid) \o Utf8From(str, mid + 1, to)

\* ethers utils.toUtf8Bytes.  A code point below 128 is its own byte.
ToUtf8Bytes(str) ==
    IF \A i \in 1..Len(str) : str[i] < 128 THEN [i \in 1..Len(str) |-> Byte(str[i])]
    ELSE IF \E i \in 1..Len(str) :
          IsHighSurrogate(str[i]) /\ (i = Len(str) \/ ~IsLowSurrogate(str[i + 1]))
    THEN InvalidUtf8String
    ELSE Utf8From(str, 1, Len(str))

RECURSIVE BigEndian(_)
\* the shortest big-endian byte string of a number >= 0 (arrayify of a BigNumber)
BigEndian(n) == IF n < 256 THEN <<Byte(n)>> ELSE BigEndian(n \div 256) \o <<Byte(n % 256)>>

\* ethers utils.zeroPad: left-pad a byte string with zero bytes to `width`
\* bytes; a longer one is an error
ZeroPad(bytes, width) ==
    IF IsFailure(bytes) THEN bytes
    ELSE LET length == ByteLength(bytes)
         IN  IF length > width THEN ValueOutOfRange
             ELSE [i \in 1..(width - length) |-> Byte(0)] \o bytes

----------------------------------------------------------------------------
(* Address strings *)

\* An address string is its hex digits, whether it starts with "0x", and the
\* casing of its letters: "lower", "upper", "checksum" (the EIP-55 casing) or
\* "mixed" (a mixed casing that is not the EIP-55 one).  A digits-only string
\* has no letters to case and is written with casing "lower".
AddrStr(prefix, casing, hex) == [prefix |-> prefix, casing |-> casing, hex |-> hex]

HasLetters(hex) == \E i \in 1..Len(hex) : hex[i] >= 10

ZERO_ADDRESS == AddrStr(TRUE, "lower", ZeroHex(40))
ZERO_BYTES32 == ZeroHex(64)

\* ethers utils.getAddress: accepts 40 hex digits with or without "0x", in
\* one case or in the EIP-55 casing, and returns the "0x" EIP-55 form.  Forty
\* digits in another mixed casing are a "bad address checksum" error and
\* anything else is an "invalid address" error.
IsAddress(a) == Len(a.hex) = 40 /\ a.casing # "mixed"
AddressError(a) == IF Len(a.hex) = 40 THEN "bad address checksum" ELSE "invalid address"
GetAddress(a) == AddrStr(TRUE, IF HasLetters(a.hex) THEN "checksum" ELSE "lower", a.hex)

----------------------------------------------------------------------------
(* Solidity packed encoding and the UID derivations *)

RECURSIVE Pow256(_)
Pow256(n) == IF n = 0 THEN 1 ELSE 256 * Pow256(n - 1)

\* solidityPack of a uintN of `width` bytes: BigNumber.toTwos, then zeroPad.
\* toTwos of a negative number inverts the low 8 * width bits of its
\* magnitude, in words of 26 bits, and adds one: the result takes more than
\* `width` bytes, an error of zeroPad, when the magnitude is a multiple of
\* 256^width or reaches past the word that holds bit 8 * width.  (Numbers are
\* below 2^31 here, so for widths of four bytes and more neither happens.)
PackUint(value, width) ==
    IF value >= 0 THEN ZeroPad(BigEndian(value), width)
    ELSE IF width < 4 /\ ((-value) % Pow256(width) = 0 \/ (-value) >= 67108864)
    THEN ValueOutOfRange
    ELSE LET low == IF width < 4 THEN ((-value) - 1) % Pow256(width) ELSE (-value) - 1
             magnitude == ZeroPad(BigEndian(low), width)
         IN  [i \in 1..width |-> Byte(255 - magnitude[i])]

\* ethers utils.solidityPack, one value.  An address is taken as hex data, as
\* it is: the string must start with "0x", its casing and its length are not
\* looked at; a bytes32 must be 32 bytes long.
PackOne(type, value) ==
    CASE type = "address" ->
            IF ~value.prefix THEN InvalidArrayify ELSE Arrayify(value.hex)
      [] type = "string" -> ToUtf8Bytes(value)
      [] type = "bytes" -> Arrayify(value)
      [] type = "bytes32" ->
            LET bytes == Arrayify(value)
            IN  IF IsFailure(bytes) \/ ByteLength(bytes) = 32 THEN bytes ELSE InvalidValue
      [] type = "bool" -> <<Byte(IF value THEN 1 ELSE 0)>>
      [] type = "uint64" -> PackUint(value, 8)
      [] type = "uint32" -> PackUint(value, 4)

RECURSIVE PackFrom(_, _, _)
PackFrom(types, values, i) ==
    IF i > Len(types) THEN <<>>
    ELSE LET packed == PackOne(types[i], values[i])
         IN  IF IsFailure(packed) THEN packed
             ELSE Cat(packed, PackFrom(types, values, i + 1))

\* ethers utils.solidityPack: as many values as types, or an error
SolidityPack(types, values) ==
    IF Len(types) # Len(values) THEN WrongNumberOfValues ELSE PackFrom(types, values, 1)

\* ethers utils.solidityKeccak256
SolidityKeccak256(types, values) == Keccak256(SolidityPack(types, values))

\* the value the 'uid' test expects of getUID
ReferenceUID(a) ==
    SolidityKeccak256(
        <<"bytes", "address", "address", "uint64", "uint64", "bool", "bytes32", "bytes", "uint32">>,
        <<Hexlify(ToUtf8Bytes(a.schema)), a.recipient, a.attester, a.time, a.expirationTime,
          a.revocable, a.refUID, a.data, a.bump>>)

\* a faulty variant of getUID: the two times are laid out four bytes wide
getUID_Uint32Times(schema, recipient, attester, time, expirationTime, revocable, refUID, data, bump) ==
    Keccak256(
        ToUtf8Bytes(schema)
        \o Arrayify(recipient.hex)
        \o Arrayify(attester.hex)
        \o ZeroPad(BigEndian(time), 4)
        \o ZeroPad(BigEndian(expirationTime), 4)
        \o <<Byte(IF revocable THEN 1 ELSE 0)>>
        \o Arrayify(refUID)
        \o Arrayify(data)
        \o ZeroPad(BigEndian(bump), 4))

\* utils.getUID: Keccak-256 over the fields laid end to end, each at its width
getUID(schema, recipient, attester, time, expirationTime, revocable, refUID, data, bump) ==
    Keccak256(
        ToUtf8Bytes(schema)
        \o Arrayify(recipient.hex)
        \o Arrayify(attester.hex)
        \o ZeroPad(BigEndian(time), 8)
        \o ZeroPad(BigEndian(expirationTime), 8)
        \o <<Byte(IF revocable THEN 1 ELSE 0)>>
        \o Arrayify(refUID)
        \o Arrayify(data)
        \o ZeroPad(BigEndian(bump), 4))

\* utils.getSchemaUID
getSchemaUID(schema, resolverAddress, revocable) ==
    Keccak256(
        ToUtf8Bytes(schema)
        \o Arrayify(resolverAddress.hex)
        \o <<Byte(IF revocable THEN 1 ELSE 0)>>)

----------------------------------------------------------------------------
(* The value sets of the utils tests *)

TestSchemas ==
    { <<98, 111, 111, 108, 32, 108, 105, 107, 101>>,
      <<97, 100, 100, 114, 101, 115, 115, 32, 99, 111, 110, 116, 114, 97, 99, 116, 65, 100,
        100, 114, 101, 115, 115, 44, 98, 111, 111, 108, 32, 116, 114, 117, 115, 116, 101, 100>>,
      <<98, 121, 116, 101, 115, 51, 50, 32, 101, 118, 101, 110, 116, 73, 100, 44, 117, 105,
        110, 116, 56, 32, 116, 105, 99, 107, 101, 116, 84, 121, 112, 101, 44, 117, 105, 110,
        116, 51, 50, 32, 116, 105, 99, 107, 101, 116, 78, 117, 109>> }

Account0 ==
    AddrStr(TRUE, "checksum",
        <<15, 3, 9, 15, 13, 6, 14, 5, 1, 10, 10, 13, 8, 8, 15, 6, 15, 4, 12, 14,
         6, 10, 11, 8, 8, 2, 7, 2, 7, 9, 12, 15, 15, 15, 11, 9, 2, 2, 6, 6>>)
Account1 ==
    AddrStr(TRUE, "checksum",
        <<7, 0, 9, 9, 7, 9, 7, 0, 12, 5, 1, 8, 1, 2, 13, 12, 3, 10, 0, 1,
         0, 12, 7, 13, 0, 1, 11, 5, 0, 14, 0, 13, 1, 7, 13, 12, 7, 9, 12, 8>>)
Account2 ==
    AddrStr(TRUE, "checksum",
        <<3, 12, 4, 4, 12, 13, 13, 13, 11, 6, 10, 9, 0, 0, 15, 10, 2, 11, 5, 8,
         5, 13, 13, 2, 9, 9, 14, 0, 3, 13, 1, 2, 15, 10, 4, 2, 9, 3, 11, 12>>)
Account3 ==
    AddrStr(TRUE, "checksum",
        <<9, 0, 15, 7, 9, 11, 15, 6, 14, 11, 2, 12, 4, 15, 8, 7, 0, 3, 6, 5,
         14, 7, 8, 5, 9, 8, 2, 14, 1, 15, 1, 0, 1, 14, 9, 3, 11, 9, 0, 6>>)

TestRecipients == {Account0, Account1, ZERO_ADDRESS}
TestAttesters == {Account2, Account3}
TestTimes == {1, 12345, 1669299342}
TestExpirationTimes == {0, 1669299342}
TestRefUIDs == {ZERO_BYTES32, <<7, 4, 6, 5, 7, 3, 7, 4>> \o ZeroHex(56)}
TestData == {ZERO_BYTES32, <<1, 2, 3, 4>>}
TestBumps == {0, 1, 2}

UIDArgs ==
    [schema : TestSchemas, recipient : TestRecipients, attester : TestAttesters,
     time : TestTimes, expirationTime : TestExpirationTimes, revocable : BOOLEAN,
     refUID : TestRefUIDs, data : TestData, bump : TestBumps]

----------------------------------------------------------------------------
(* ABI encoding and the EIP-712 domain separator *)

EIP712_DOMAIN ==
    <<69, 73, 80, 55, 49, 50, 68, 111, 109, 97, 105, 110, 40, 115, 116, 114, 105, 110, 103,
      32, 110, 97, 109, 101, 44, 115, 116, 114, 105, 110, 103, 32, 118, 101, 114, 115, 105,
      111, 110, 44, 117, 105, 110, 116, 50, 53, 54, 32, 99, 104, 97, 105, 110, 73, 100, 44,
      97, 100, 100, 114, 101, 115, 115, 32, 118, 101, 114, 105, 102, 121, 105, 110, 103, 67,
      111, 110, 116, 114, 97, 99, 116, 41>>

\* ethers defaultAbiCoder, one static value: a 32-byte word.  A bytes32 must be
\* 32 bytes long and a uint256 must not be negative.
AbiWord(type, value) ==
    CASE type = "bytes32" ->
            LET bytes == Arrayify(value)
            IN  IF IsFailure(bytes) \/ ByteLength(bytes) = 32 THEN bytes
                ELSE IncorrectDataLength
      [] type = "uint256" ->
            IF value < 0 THEN ValueOutOfBounds ELSE ZeroPad(BigEndian(value), 32)
      [] type = "address" ->
            IF IsAddress(value) THEN ZeroPad(Arrayify(GetAddress(value).hex), 32)
            ELSE IF AddressError(value) = "bad address checksum" THEN BadAddressChecksum
            ELSE InvalidAddress
      [] type = "bool" -> ZeroPad(<<Byte(IF value THEN 1 ELSE 0)>>, 32)

RECURSIVE AbiFrom(_, _, _)
AbiFrom(types, values, i) ==
    IF i > Len(types) THEN <<>>
    ELSE LET word == AbiWord(types[i], values[i])
         IN  IF IsFailure(word) THEN word
             ELSE Cat(word, AbiFrom(types, values, i + 1))

\* ethers defaultAbiCoder.encode on static types: as many values as types, or
\* an error
AbiEncode(types, values) ==
    IF Len(types) # Len(values) THEN TypesValuesLengthMismatch ELSE AbiFrom(types, values, 1)

\* a faulty variant of getDomainSeparator: the version is left out of the encoding
getDomainSeparator_NoVersion(cfg) ==
    Keccak256(
        AbiEncode(
            <<"bytes32", "bytes32", "uint256", "address">>,
            <<Keccak256(ToUtf8Bytes(EIP712_DOMAIN)),
              Keccak256(ToUtf8Bytes(cfg.name)),
              cfg.chainId,
              cfg.address>>))

\* TypedDataHandler.getDomainSeparator, of a handler whose config is cfg
getDomainSeparator(cfg) ==
    Keccak256(
        AbiEncode(
            <<"bytes32", "bytes32", "bytes32", "uint256", "address">>,
            <<Keccak256(ToUtf8Bytes(EIP712_DOMAIN)),
              Keccak256(ToUtf8Bytes(cfg.name)),
              Keccak256(ToUtf8Bytes(cfg.version)),
              cfg.chainId,
              cfg.address>>))

\* TypedDataHandler.getDomainTypedData: a fresh object built from the config
getDomainTypedData(cfg) ==
    [name |-> cfg.name, version |-> cfg.version, chainId |-> cfg.chainId,
     verifyingContract |-> cfg.address]

\* TypedDataHandler's constructor: the handler keeps the config it is given
NewHandler(cfg) == cfg

----------------------------------------------------------------------------
(* EIP-712 hashing, as ethers' _TypedDataEncoder computes it *)

\* the code points of the words that occur in type strings
Cps(word) ==
    CASE word = "string" -> <<115, 116, 114, 105, 110, 103>>
      [] word = "uint256" -> <<117, 105, 110, 116, 50, 53, 54>>
      [] word = "address" -> <<97, 100, 100, 114, 101, 115, 115>>
      [] word = "name" -> <<110, 97, 109, 101>>
      [] word = "version" -> <<118, 101, 114, 115, 105, 111, 110>>
      [] word = "chainId" -> <<99, 104, 97, 105, 110, 73, 100>>
      [] word = "verifyingContract" ->
            <<118, 101, 114, 105, 102, 121, 105, 110, 103, 67, 111, 110, 116, 114, 97, 99, 116>>
      [] word = "nonce" -> <<110, 111, 110, 99, 101>>
      [] word = "EIP712Domain" -> <<69, 73, 80, 55, 49, 50, 68, 111, 109, 97, 105, 110>>
      [] word = "Attest" -> <<65, 116, 116, 101, 115, 116>>
      [] word = "Revoke" -> <<82, 101, 118, 111, 107, 101>>

\* a struct type: its name and its fields, in order
StructType(primary, fields) == [primary |-> primary, fields |-> fields]
Field(name, type) == [name |-> name, type |-> type]

DomainType ==
    StructType("EIP712Domain",
        <<Field("name", "string"), Field("version", "string"),
          Field("chainId", "uint256"), Field("verifyingContract", "address")>>)

RECURSIVE FieldList(_, _)
\* "type name,type name,..." from field i on
FieldList(fields, i) ==
    IF i > Len(fields) THEN <<>>
    ELSE (IF i > 1 THEN <<44>> ELSE <<>>)
         \o Cps(fields[i].type) \o <<32>> \o Cps(fields[i].name)
         \o FieldList(fields, i + 1)

\* _TypedDataEncoder.encodeType: "Name(type name,...)"
EncodeType(t) == Cps(t.primary) \o <<40>> \o FieldList(t.fields, 1) \o <<41>>

\* the 32-byte word of one field: a string is hashed, a uint256 must not be
\* negative, and the rest is as ABI-encoded
Eip712Word(type, value) ==
    IF type = "string" THEN Arrayify(Keccak256(ToUtf8Bytes(value)))
    ELSE IF type = "uint256" /\ value < 0 THEN ValueOutOfBoundsForUint256
    ELSE AbiWord(type, value)

RECURSIVE EncodeFields(_, _, _)
\* the words of the fields from field i on, in order; the first field whose
\* value has no word is the error
EncodeFields(t, value, i) ==
    IF i > Len(t.fields) THEN <<>>
    ELSE Cat(Eip712Word(t.fields[i].type, value[t.fields[i].name]),
             EncodeFields(t, value, i + 1))

AttestType == StructType("Attest", <<Field("nonce", "uint256")>>)
RevokeType == StructType("Revoke", <<Field("nonce", "uint256")>>)
MessageTypes == {AttestType, RevokeType}

\* the type hash of each struct type in use: Keccak-256 of its type string
TypeHash ==
    [t \in MessageTypes \cup {DomainType} |-> Keccak256(ToUtf8Bytes(EncodeType(t)))]

\* _TypedDataEncoder.hashStruct
HashStruct(t, value) ==
    Keccak256(Cat(Arrayify(TypeHash[t]), EncodeFields(t, value, 1)))

\* _TypedDataEncoder.hashDomain
HashDomain(domain) == HashStruct(DomainType, domain)

\* _TypedDataEncoder.hash: the digest that is signed and recovered against.
\* The domain is hashed first and the message after it; what either throws
\* is what the call throws.
TypedDataHash(domain, types, value) ==
    Keccak256(Cat(Cat(<<Byte(25), Byte(1)>>, Arrayify(HashDomain(domain))),
                  Arrayify(HashStruct(types, value))))

----------------------------------------------------------------------------
(* ECDSA signatures, symbolically *)

\* The r and s of a signature that key `key` makes over `digest` are symbols
\* that carry both, and with them the recovery bit of that signature: the bit
\* follows from the key, the digest and the nonce of the signature, which the
\* model does not compute, so that a signature has either bit.  A component
\* that is no hex string is "junk".
SigPart(key, digest, bit) == [kind |-> "sig", key |-> key, digest |-> digest, bit |-> bit]
JunkPart == [kind |-> "junk", key |-> 0, digest |-> <<>>, bit |-> 0]
RecoveryBits == {0, 1}

\* the address of a signing principal: "0xAaAa...a<key>" in EIP-55 casing
AddressOfKey(key) ==
    AddrStr(TRUE, "checksum", [i \in 1..40 |-> IF i = 40 THEN key ELSE 10])

\* the address recovery yields when the signature is not one over the digest:
\* the address of no principal
StrayAddress == AddrStr(TRUE, "checksum", [i \in 1..40 |-> 11])

\* What a signer resolves with is a string.  A raw signature is a hex string
\* of 65 bytes, r || s || v, or of 64 bytes, r || s with the recovery bit in the
\* top bit of s (the compact form); `v` is the v byte of the one and that bit
\* of the other.  Strings of another length, and strings that are no hex
\* string, carry no r and s.
RawSignature(r, s, v) == [hex |-> TRUE, bytes |-> 65, r |-> r, s |-> s, v |-> v]
CompactSignature(r, s, bit) == [hex |-> TRUE, bytes |-> 64, r |-> r, s |-> s, v |-> bit]
ShortSignature == [hex |-> TRUE, bytes |-> 63, r |-> JunkPart, s |-> JunkPart, v |-> 0]
NoHexSignature == [hex |-> FALSE, bytes |-> 0, r |-> JunkPart, s |-> JunkPart, v |-> 0]

\* what a signing principal answers with for a digest, its signature being
\* of recovery bit `bit`.  `style` is the form of the answer: the signature
\* with v written 27/28 ("eip155"), 0/1 ("recid"), or 35 + 2 * chainId +
\* recovery bit for chain 1 ("chainv"); the compact signature ("compact"); the
\* signature with a v byte of 2 or 3 ("badv"); a hex string a byte short
\* ("short"); or a string that is no hex ("nohex").  When the hashing threw
\* there is no digest, and that error is what the signer throws.
SignDigest(key, style, bit, digest) ==
    IF IsFailure(digest) THEN [throws |-> ErrorText(digest)]
    ELSE CASE style = "eip155" ->
                RawSignature(SigPart(key, digest, bit), SigPart(key, digest, bit), 27 + bit)
           [] style = "recid" ->
                RawSignature(SigPart(key, digest, bit), SigPart(key, digest, bit), bit)
           [] style = "chainv" ->
                RawSignature(SigPart(key, digest, bit), SigPart(key, digest, bit), 37 + bit)
           [] style = "compact" ->
                CompactSignature(SigPart(key, digest, bit), SigPart(key, digest, bit), bit)
           [] style = "badv" ->
                RawSignature(SigPart(key, digest, bit), SigPart(key, digest, bit), 2 + bit)
           [] style = "short" -> ShortSignature
           [] style = "nohex" -> NoHexSignature

\* a signing principal's _signTypedData: it hashes the typed data and signs
\* the digest
SignTypedData(key, style, bit, domain, types, value) ==
    SignDigest(key, style, bit, TypedDataHash(domain, types, value))

\* ethers utils.splitSignature on a string.  Of 65 bytes, a v of 0 or 1 is
\* brought to 27/28, any other v below 27 is an error, and a v from 27 on is
\* kept; of 64 bytes, v is 27 plus the top bit of s; a hex string of another
\* length is an error; a string that is no hex string is read as an object
\* with no fields, an error.
SplitSignature(raw) ==
    IF ~raw.hex THEN [throws |-> "signature missing v and recoveryParam"]
    ELSE IF raw.bytes = 64
    THEN [r |-> raw.r, s |-> raw.s, v |-> 27 + raw.v, recoveryParam |-> raw.v]
    ELSE IF raw.bytes # 65 THEN [throws |-> "invalid signature string"]
    ELSE IF raw.v < 27 /\ raw.v \notin {0, 1}
    THEN [throws |-> "signature invalid v byte"]
    ELSE LET v == IF raw.v < 27 THEN raw.v + 27 ELSE raw.v
         IN  [r |-> raw.r, s |-> raw.s, v |-> v, recoveryParam |-> 1 - (v % 2)]

Throws(result) == "throws" \in DOMAIN result

\* ethers utils.hexlify on a signature component: a hex string or an error
CanHexlify(part) == part.kind # "junk"

\* ethers utils.joinSignature on {v, r, s}: the raw signature again
JoinSignature(sig) ==
    LET recoveryParam == IF sig.v \in {0, 1} THEN sig.v ELSE 1 - (sig.v % 2)
    IN  RawSignature(sig.r, sig.s, IF recoveryParam = 1 THEN 28 ELSE 27)

\* ethers utils.recoverAddress: the signer when the signature is one over
\* `digest` and is given with its recovery bit, and some other address when
\* not.  When the hashing threw there is no digest, and that error is thrown.
RecoverAddress(digest, raw) ==
    LET sig == SplitSignature(raw)
    IN  IF IsFailure(digest) THEN [throws |-> ErrorText(digest)]
        ELSE IF /\ sig.r.kind = "sig" /\ sig.s = sig.r
                /\ sig.r.digest = digest
                /\ sig.recoveryParam = sig.r.bit
        THEN AddressOfKey(sig.r.key)
        ELSE StrayAddress

\* ethers utils.verifyTypedData: the address recovered, or the error of the
\* hashing
VerifyTypedData(domain, types, value, raw) ==
    RecoverAddress(TypedDataHash(domain, types, value), raw)

----------------------------------------------------------------------------
(* TypedDataHandler: signTypedDataRequest and verifyTypedDataRequestSignature *)

\* what signTypedDataRequest hands to signer._signTypedData
SignerInput(params, types) == [domain |-> types.domain, types |-> types.types, value |-> params]

\* what signTypedDataRequest does once the signer has answered rawSignature:
\* it returns { ...types, signature: { v, r, s } }, or throws what
\* splitSignature throws
SignResponse(params, types, rawSignature) ==
    LET signature == SplitSignature(rawSignature)
    IN  IF Throws(signature) THEN signature
        ELSE [domain |-> types.domain, primaryType |-> types.primaryType,
              types |-> types.types, message |-> types.message,
              signature |-> [v |-> signature.v, r |-> signature.r, s |-> signature.s]]

Returned(value, recovered) ==
    [kind |-> "return", value |-> value, error |-> "", recovered |-> recovered]
Thrown(error, recovered) ==
    [kind |-> "throw", value |-> FALSE, error |-> error, recovered |-> recovered]

\* the end of verifyTypedDataRequestSignature, verifyTypedData having
\* returned recoveredAddress or thrown:
\* getAddress(attester) === getAddress(recoveredAddress)
SameAddress(attester, recoveredAddress) ==
    IF Throws(recoveredAddress) THEN Thrown(recoveredAddress.throws, <<>>)
    ELSE IF ~IsAddress(attester) THEN Thrown(AddressError(attester), <<recoveredAddress>>)
    ELSE Returned(GetAddress(attester) = GetAddress(recoveredAddress), <<recoveredAddress>>)

\* verifyTypedDataRequestSignature(attester, request): what the call ends in,
\* and the address it recovered on the way, if it got that far
verifyTypedDataRequestSignature(attester, request) ==
    IF attester = ZERO_ADDRESS
    THEN Thrown("Invalid address", <<>>)
    ELSE IF ~CanHexlify(request.signature.r) \/ ~CanHexlify(request.signature.s)
    THEN Thrown("invalid hexlify value", <<>>)
    ELSE SameAddress(attester,
             VerifyTypedData(request.domain, request.types, request.message,
                             JoinSignature(request.signature)))

----------------------------------------------------------------------------
(* The handler under test: its inputs *)

MaxNonce == 1

\* the callers of the handler; each awaits the sign call it made, so there are
\* as many sign calls in flight as there are callers, at most
Callers == {"first", "second"}

\* the principal that signs
Signers == {1}
SignerStyles == {"eip155", "recid", "chainv", "compact", "badv", "short", "nohex"}
SignerErrors == {"user rejected signing", "signer unreachable"}

RegistryContract == Account0
ProxyContract == Account1

\* the configs the handler under test is constructed with
HandlerConfigs ==
    { [name |-> <<69, 65, 83>>, version |-> <<48, 46, 50, 54>>, chainId |-> 1,
       address |-> RegistryContract],
      [name |-> <<69, 65, 83>>, version |-> <<48, 46, 50, 54>>, chainId |-> 1,
       address |-> ProxyContract] }

\* the domains responses are signed under: the registry contract on two chains
Domains ==
    { [name |-> <<69, 65, 83>>, version |-> <<48, 46, 50, 54>>, chainId |-> chainId,
       verifyingContract |-> RegistryContract] : chainId \in {1, 5} }

\* the params handed to signTypedDataRequest; a nonce of -1 is one that a
\* uint256 does not hold
Messages == [nonce : -1..MaxNonce]

\* the request templates handed to signTypedDataRequest: attestations to the
\* registry contract on chain 1
Requests ==
    {[domain |-> d, primaryType |-> "Attest", types |-> AttestType, message |-> [nonce |-> 0]] :
        d \in {e \in Domains : e.chainId = 1}}

\* the spellings of an address that getAddress accepts as the same address
Spellings(a) ==
    { AddrStr(p, c, a.hex) :
        p \in BOOLEAN, c \in IF HasLetters(a.hex) THEN {"checksum", "lower"} ELSE {"lower"} }

\* strings that getAddress rejects: a wrong casing, a digit short
BadAddresses ==
    { AddrStr(TRUE, "mixed", AddressOfKey(1).hex), AddrStr(TRUE, "lower", ZeroHex(39)) }

\* the expected signers verification is asked about: the principal that
\* signs and another, and strings that are not the address of either
Attesters ==
    {AddressOfKey(k) : k \in {1, 2}}
    \cup {AddrStr(FALSE, "lower", AddressOfKey(1).hex)}
    \cup Spellings(ZERO_ADDRESS) \cup BadAddresses

\* the responses that were signed before the handler under test was
\* constructed: a revocation on chain 5, its signature of either recovery bit
PriorResponses ==
    LET types == [domain |-> CHOOSE d \in Domains : d.chainId = 5,
                  primaryType |-> "Revoke", types |-> RevokeType, message |-> [nonce |-> 0]]
    IN  { SignResponse(types.message, types,
              SignTypedData(1, "eip155", bit, types.domain, types.types, types.message)) :
            bit \in RecoveryBits }

\* the ways a caller alters a response before handing it to verification: r
\* replaced by a string that is no hex, the domain by the handler's own, the
\* message by another
Alterations ==
    {[part |-> "r", nonce |-> 0], [part |-> "domain", nonce |-> 0]}
    \cup {[part |-> "message", nonce |-> n] : n \in -1..MaxNonce}

\* the copy of a response with a component replaced
Altered(resp, change, cfg) ==
    CASE change.part = "r" -> [resp EXCEPT !.signature.r = JunkPart]
      [] change.part = "domain" -> [resp EXCEPT !.domain = getDomainTypedData(cfg)]
      [] change.part = "message" -> [resp EXCEPT !.message = [nonce |-> change.nonce]]

\* the address of the principal whose signature a response carries
SignerOf(resp) == AddressOfKey(resp.signature.r.key)

NoCall == [op |-> "none"]

----------------------------------------------------------------------------
(* The handler under test: its operations *)

GetDomainSeparator ==
    /\ last' = [op |-> "getDomainSeparator", kind |-> "return",
                value |-> getDomainSeparator(config)]
    /\ UNCHANGED <<config, ctorConfig, signCalls>>
    /\ UNCHANGED notHandler

GetDomainTypedData ==
    /\ last' = [op |-> "getDomainTypedData", kind |-> "return",
                value |-> getDomainTypedData(config)]
    /\ UNCHANGED <<config, ctorConfig, signCalls>>
    /\ UNCHANGED notHandler

\* signTypedDataRequest up to its await: the signer is asked, once.  The
\* handler takes the call whatever else is in flight; a caller is free to make it.
SignTypedDataRequest(params, types, signer) ==
    /\ BagCardinality(signCalls) < Cardinality(Callers)
    /\ signCalls' = signCalls (+) SetToBag({[params |-> params, types |-> types,
                                             signer |-> signer,
                                             asked |-> SignerInput(params, types),
                                             invoked |-> 1]})
    /\ UNCHANGED <<config, ctorConfig, last>>
    /\ UNCHANGED notHandler

\* a faulty variant of SignerRejects: the signer is asked again after a failure
SignerRejects_Retry(error) ==
    \E call \in BagToSet(signCalls) :
        /\ IF call.invoked = 1
           THEN /\ signCalls' = (signCalls (-) SetToBag({call}))
                                     (+) SetToBag({[call EXCEPT !.invoked = 2]})
                /\ UNCHANGED last
           ELSE /\ signCalls' = signCalls (-) SetToBag({call})
                /\ last' = [op |-> "signTypedDataRequest", kind |-> "throw", value |-> <<>>,
                            error |-> error, signerError |-> error, resolved |-> <<>>,
                            invoked |-> call.invoked]
        /\ UNCHANGED <<config, ctorConfig>>
        /\ UNCHANGED notHandler

\* the signer of a call in flight fails: the await throws and the call fails
\* with that error
SignerRejects(error) ==
    \E call \in BagToSet(signCalls) :
        /\ signCalls' = signCalls (-) SetToBag({call})
        /\ last' = [op |-> "signTypedDataRequest", kind |-> "throw", value |-> <<>>,
                    error |-> error, signerError |-> error, resolved |-> <<>>,
                    invoked |-> call.invoked]
        /\ UNCHANGED <<config, ctorConfig>>
        /\ UNCHANGED notHandler

\* signTypedDataRequest after its await, the signer having answered
\* rawSignature or thrown: what the call ends in
Resolved(call, rawSignature) ==
    LET result == SignResponse(call.params, call.types, rawSignature)
    IN  IF Throws(rawSignature)
        THEN [op |-> "signTypedDataRequest", kind |-> "throw", value |-> <<>>,
              error |-> rawSignature.throws, signerError |-> rawSignature.throws,
              resolved |-> <<>>, invoked |-> call.invoked]
        ELSE IF Throws(result)
        THEN [op |-> "signTypedDataRequest", kind |-> "throw", value |-> <<>>,
              error |-> result.throws, signerError |-> "",
              resolved |-> <<rawSignature>>, invoked |-> call.invoked]
        ELSE [op |-> "signTypedDataRequest", kind |-> "return", value |-> <<result>>,
              error |-> "", signerError |-> "", resolved |-> <<rawSignature>>,
              invoked |-> call.invoked, params |-> call.params, types |-> call.types,
              signer |-> call.signer]

\* the signer of a call in flight cannot hash what it was asked to sign: the
\* await throws and the call fails with the error of the hashing
SignerCannotHash ==
    \E call \in BagToSet(signCalls) :
        /\ last' = Resolved(call, SignTypedData(call.signer, "eip155", 0, call.asked.domain,
                                                call.asked.types, call.asked.value))
        /\ last'.resolved = <<>>
        /\ signCalls' = signCalls (-) SetToBag({call})
        /\ UNCHANGED <<config, ctorConfig>>
        /\ UNCHANGED notHandler

\* the signer of a call in flight resolves, with a signature of the given
\* recovery bit or with another string: the call splits what the signer
\* answered and returns the response, or fails with what splitSignature throws
SignerResolves(style, bit) ==
    \E call \in BagToSet(signCalls) :
        /\ last' = Resolved(call, SignTypedData(call.signer, style, bit, call.asked.domain,
                                                call.asked.types, call.asked.value))
        /\ last'.resolved # <<>>
        /\ signCalls' = signCalls (-) SetToBag({call})
        /\ UNCHANGED <<config, ctorConfig>>
        /\ UNCHANGED notHandler

\* a faulty variant of VerifyTypedDataRequestSignature: the handler adopts the domain
\* of the request it verified
VerifyTypedDataRequestSignature_CachesDomain(attester, request) ==
    /\ last' = [op |-> "verifyTypedDataRequestSignature", attester |-> attester,
                request |-> request,
                out |-> verifyTypedDataRequestSignature(attester, request)]
    /\ config' = [config EXCEPT !.chainId = request.domain.chainId,
                                !.address = request.domain.verifyingContract]
    /\ UNCHANGED <<ctorConfig, signCalls>>
    /\ UNCHANGED notHandler

VerifyTypedDataRequestSignature(attester, request) ==
    /\ last' = [op |-> "verifyTypedDataRequestSignature", attester |-> attester,
                request |-> request,
                out |-> verifyTypedDataRequestSignature(attester, request)]
    /\ UNCHANGED <<config, ctorConfig, signCalls>>
    /\ UNCHANGED notHandler

\* the responses a caller has at hand for verification: the one a sign call
\* has just returned, or else an older one
Presented ==
    IF last.op = "signTypedDataRequest" /\ last.kind = "return"
    THEN {last.value[1]} ELSE PriorResponses

HandlerInit ==
    /\ ctorConfig \in HandlerConfigs
    /\ config = NewHandler(ctorConfig)
    /\ signCalls = EmptyBag
    /\ last = NoCall

HandlerParked ==
    /\ ctorConfig = <<>> /\ config = <<>> /\ signCalls = EmptyBag /\ last = NoCall

HandlerNext ==
    \/ GetDomainSeparator
    \/ GetDomainTypedData
    \/ \E params \in Messages, types \in Requests, signer \in Signers :
          SignTypedDataRequest(params, types, signer)
    \/ \E style \in SignerStyles, bit \in RecoveryBits : SignerResolves(style, bit)
    \/ SignerCannotHash
    \/ \E error \in SignerErrors : SignerRejects(error)
    \/ \E attester \in Attesters, request \in Presented :
          VerifyTypedDataRequestSignature(attester, request)
    \/ \E change \in Alterations, request \in Presented :
          VerifyTypedDataRequestSignature(SignerOf(request), Altered(request, change, config))

----------------------------------------------------------------------------
(* The utils tests: getUID over the tests' value sets *)

UIDCall(a) ==
    [args |-> a,
     uid |-> getUID(a.schema, a.recipient, a.attester, a.time, a.expirationTime, a.revocable,
                    a.refUID, a.data, a.bump)]

UIDInit ==
    /\ uidCall \in {UIDCall(a) : a \in UIDArgs}
    /\ uidPrev = uidCall

UIDParked == uidCall = <<>> /\ uidPrev = <<>>

\* a second call, whose arguments differ from the first in the given field at most
UIDChange(field, values) ==
    /\ uidPrev = uidCall
    /\ \E v \in values :
        /\ uidCall' = UIDCall([uidPrev.args EXCEPT ![field] = v])
        /\ UNCHANGED uidPrev
        /\ UNCHANGED notUID

UIDNext ==
    \/ UIDChange("schema", TestSchemas)
    \/ UIDChange("recipient", TestRecipients)
    \/ UIDChange("attester", TestAttesters)
    \/ UIDChange("time", TestTimes)
    \/ UIDChange("expirationTime", TestExpirationTimes)
    \/ UIDChange("revocable", BOOLEAN)
    \/ UIDChange("refUID", TestRefUIDs)
    \/ UIDChange("data", TestData)
    \/ UIDChange("bump", TestBumps)

----------------------------------------------------------------------------
(* Domain separators of handlers over a range of configs *)

MaxStrLen == 2

Alphabet == {49, 233}
Strings == UNION {[1..n -> Alphabet] : n \in 0..MaxStrLen}
ChainIds == {1, 31337}
ContractAddresses == Spellings(RegistryContract) \cup {ProxyContract}

DomainConfigs ==
    [name : Strings, version : Strings, chainId : ChainIds, address : ContractAddresses]

\* a handler constructed with cfg, and what its getDomainSeparator returns
SeparatorCall(cfg) == [config |-> cfg, separator |-> getDomainSeparator(NewHandler(cfg))]

DomainInit ==
    /\ sepA \in {SeparatorCall(c) : c \in DomainConfigs}
    /\ sepB = sepA

DomainParked == sepA = <<>> /\ sepB = <<>>

\* a second handler whose config differs from the first in the given field at most
DomainChange(field, values) ==
    /\ sepB = sepA
    /\ \E v \in values :
        /\ sepB' = SeparatorCall([sepA.config EXCEPT ![field] = v])
        /\ UNCHANGED sepA
        /\ UNCHANGED notDomain

DomainNext ==
    \/ DomainChange("name", Strings)
    \/ DomainChange("version", Strings)
    \/ DomainChange("chainId", ChainIds)
    \/ DomainChange("address", ContractAddresses)

----------------------------------------------------------------------------
(* SchemaRegistry and the registry contract it calls *)

\* utils.getSchemaUUID(schema, resolverAddress): the two-argument derivation
\* that register calls
getSchemaUUID(schema, resolverAddress) ==
    SolidityKeccak256(<<"string", "address">>, <<schema, resolverAddress>>)

SchemaRecord(uuid, resolver, schema) == [uuid |-> uuid, resolver |-> resolver, schema |-> schema]

\* the record the contract returns for an identifier it does not hold
EmptyRecord == SchemaRecord(ZERO_BYTES32, ZERO_ADDRESS, <<>>)

\* the contract's key of a schema: register(schema, resolver) takes no more
ContractUUID(schema, resolver) ==
    Keccak256(ToUtf8Bytes(schema) \o Arrayify(resolver.hex))

\* the contract's getSchema
ContractGetSchema(stored, uuid) ==
    IF \E r \in stored : r.uuid = uuid
    THEN CHOOSE r \in stored : r.uuid = uuid
    ELSE EmptyRecord

\* a faulty variant of getSchema: the record read is returned without the check
getSchema_Unchecked(schema) ==
    [kind |-> "return", value |-> <<schema>>, error |-> ""]

\* SchemaRegistry.getSchema after its await, given the record the contract returned
getSchema(schema) ==
    IF schema.uuid = ZERO_BYTES32
    THEN [kind |-> "throw", value |-> <<>>, error |-> "Schema not found"]
    ELSE [kind |-> "return", value |-> <<schema>>, error |-> ""]

RegSchemas == { <<98, 111, 111, 108, 32, 108, 105, 107, 101>> }
RegResolvers == {Account0, ZERO_ADDRESS}
ContractErrors == {"call reverted", "network error"}

\* the identifiers getSchema is asked about
RegUUIDs ==
    {getSchemaUUID(sc, rs) : sc \in RegSchemas, rs \in RegResolvers}
    \cup {getSchemaUID(sc, rs, rv) : sc \in RegSchemas, rs \in RegResolvers, rv \in BOOLEAN}
    \cup {ZERO_BYTES32}

\* the register transaction of a schema
RegisterTx(schema, resolver) == [schema |-> schema, resolver |-> resolver]

\* the contract's storage once a register transaction is mined: the schema is
\* stored under its key, and a transaction for a key that is taken reverts
Mined(stored, tx) ==
    LET uuid == ContractUUID(tx.schema, tx.resolver)
    IN  IF \E r \in stored : r.uuid = uuid THEN stored
        ELSE stored \cup {SchemaRecord(uuid, tx.resolver, tx.schema)}

RegInit ==
    /\ registry = {}
    /\ mempool = {}
    /\ regCalls = EmptyBag
    /\ regLast = NoCall

RegParked == RegInit

\* register up to its await: the contract's register is called.  The client
\* takes the call whatever else is in flight.
Register(schema, resolverAddress) ==
    /\ BagCardinality(regCalls) < Cardinality(Callers)
    /\ regCalls' = regCalls (+) SetToBag({[op |-> "register", schema |-> schema,
                                           resolverAddress |-> resolverAddress,
                                           sent |-> FALSE]})
    /\ UNCHANGED <<registry, mempool, regLast>>
    /\ UNCHANGED notRegistry

\* register is awaiting the contract: the transaction of a register call in
\* flight reaches the chain, which mines it as it is submitted or keeps it to
\* be mined later
TransactionSubmitted ==
    \E call \in BagToSet(regCalls), mined \in BOOLEAN :
        /\ call.op = "register" /\ ~call.sent
        /\ LET tx == RegisterTx(call.schema, call.resolverAddress)
           IN  IF mined
               THEN registry' = Mined(registry, tx) /\ UNCHANGED mempool
               ELSE mempool' = mempool \cup {tx} /\ UNCHANGED registry
        /\ regCalls' = (regCalls (-) SetToBag({call}))
                           (+) SetToBag({[call EXCEPT !.sent = TRUE]})
        /\ UNCHANGED regLast
        /\ UNCHANGED notRegistry

\* the contract's register answers, the transaction having been sent: register
\* does not wait for it to be mined and returns the identifier it derives
ContractRegisters ==
    \E call \in BagToSet(regCalls) :
        /\ call.op = "register" /\ call.sent
        /\ LET uuid == getSchemaUUID(call.schema, call.resolverAddress)
           IN  regLast' = [op |-> "register",
                           kind |-> IF IsFailure(uuid) THEN "throw" ELSE "return",
                           error |-> IF IsFailure(uuid) THEN "invalid arrayify value" ELSE "",
                           schema |-> call.schema, resolverAddress |-> call.resolverAddress,
                           value |-> IF IsFailure(uuid) THEN <<>> ELSE <<uuid>>]
        /\ regCalls' = regCalls (-) SetToBag({call})
        /\ UNCHANGED <<registry, mempool>>
        /\ UNCHANGED notRegistry

\* a register transaction that was sent is mined
TransactionMined ==
    \E tx \in mempool :
        /\ registry' = Mined(registry, tx)
        /\ mempool' = mempool \ {tx}
        /\ UNCHANGED <<regCalls, regLast>>
        /\ UNCHANGED notRegistry

\* the contract's register fails, before or after the transaction was sent:
\* the await throws and register fails with it
ContractRegisterFails(error) ==
    \E call \in BagToSet(regCalls) :
        /\ call.op = "register"
        /\ regLast' = [op |-> "register", kind |-> "throw", error |-> error,
                       schema |-> call.schema, resolverAddress |-> call.resolverAddress,
                       value |-> <<>>]
        /\ regCalls' = regCalls (-) SetToBag({call})
        /\ UNCHANGED <<registry, mempool>>
        /\ UNCHANGED notRegistry

\* getSchema up to its await: the contract's getSchema is called
GetSchema(uuid) ==
    /\ BagCardinality(regCalls) < Cardinality(Callers)
    /\ regCalls' = regCalls (+) SetToBag({[op |-> "getSchema", uuid |-> uuid, read |-> <<>>]})
    /\ UNCHANGED <<registry, mempool, regLast>>
    /\ UNCHANGED notRegistry

\* getSchema is awaiting the contract: the contract reads the record of the
\* identifier from its storage as that is now.  The answer is on its way
\* while transactions are mined and other calls go on.
ContractReads ==
    \E call \in BagToSet(regCalls) :
        /\ call.op = "getSchema" /\ call.read = <<>>
        /\ regCalls' = (regCalls (-) SetToBag({call}))
                           (+) SetToBag({[call EXCEPT
                                   !.read = <<ContractGetSchema(registry, call.uuid)>>]})
        /\ UNCHANGED <<registry, mempool, regLast>>
        /\ UNCHANGED notRegistry

\* the contract's answer, the record it read, arrives; getSchema checks and
\* returns it
ContractAnswers ==
    \E call \in BagToSet(regCalls) :
        /\ call.op = "getSchema" /\ call.read # <<>>
        /\ LET schema == call.read[1]
               out == getSchema(schema)
           IN  regLast' = [op |-> "getSchema", uuid |-> call.uuid, read |-> <<schema>>,
                           kind |-> out.kind, value |-> out.value, error |-> out.error]
        /\ regCalls' = regCalls (-) SetToBag({call})
        /\ UNCHANGED <<registry, mempool>>
        /\ UNCHANGED notRegistry

\* the contract's getSchema fails, before or after the read: getSchema fails
\* with it
ContractReadFails(error) ==
    \E call \in BagToSet(regCalls) :
        /\ call.op = "getSchema"
        /\ regLast' = [op |-> "getSchema", uuid |-> call.uuid, read |-> <<>>,
                       kind |-> "throw", value |-> <<>>, error |-> error]
        /\ regCalls' = regCalls (-) SetToBag({call})
        /\ UNCHANGED <<registry, mempool>>
        /\ UNCHANGED notRegistry

RegNext ==
    \/ \E schema \in RegSchemas, resolverAddress \in RegResolvers :
          Register(schema, resolverAddress)
    \/ TransactionSubmitted
    \/ ContractRegisters
    \/ ContractReads
    \/ TransactionMined
    \/ \E error \in ContractErrors : ContractRegisterFails(error)
    \/ \E uuid \in RegUUIDs : GetSchema(uuid)
    \/ ContractAnswers
    \/ \E error \in ContractErrors : ContractReadFails(error)

----------------------------------------------------------------------------
(* Specifications *)

\* the typed-data handler
Init == HandlerInit /\ UIDParked /\ DomainParked /\ RegParked
Next == HandlerNext
Spec == Init /\ [][Next]_vars

\* the UID derivations
InitUID == UIDInit /\ HandlerParked /\ DomainParked /\ RegParked
SpecUID == InitUID /\ [][UIDNext]_vars

\* the domain separator
InitDomain == DomainInit /\ UIDParked /\ HandlerParked /\ RegParked
SpecDomain == InitDomain /\ [][DomainNext]_vars

\* the schema registry
InitRegistry == RegInit /\ UIDParked /\ DomainParked /\ HandlerParked
SpecRegistry == InitRegistry /\ [][RegNext]_vars

----------------------------------------------------------------------------
(* Properties of the typed-data handler *)

IsVerify == last.op = "verifyTypedDataRequestSignature"
IsSign == last.op = "signTypedDataRequest"

\* a string that getAddress reads as the zero address
IsZeroAddress(a) == IsAddress(a) /\ GetAddress(a) = GetAddress(ZERO_ADDRESS)

\* the responses signTypedDataRequest(params, request, signer) returns, over
\* the params, request templates and signing principals
SignedResponses ==
    LET answers ==
            { [params |-> params, types |-> types,
               raw |-> SignTypedData(signer, style, bit, types.domain, types.types, params)] :
                params \in Messages, types \in Requests, signer \in Signers,
                style \in SignerStyles, bit \in RecoveryBits }
        outcomes ==
            { SignResponse(a.params, a.types, a.raw) : a \in {b \in answers : ~Throws(b.raw)} }
    IN  {r \in outcomes : ~Throws(r)}

\* the latest call verified, for the signer's own address, a response that a
\* sign call returns
VerifiedOwnResponse ==
    /\ IsVerify
    /\ last.request \in SignedResponses
    /\ IsAddress(last.attester)
    /\ GetAddress(last.attester) = SignerOf(last.request)

\* C1: verifying, for the signer's address, the response a sign call returned
\* returns true, whatever the params and the request template were.
RoundTripVerifies ==
    VerifiedOwnResponse => last.out.kind = "return" /\ last.out.value = TRUE

\* the request domain differs from the handler's in chainId or in address
ForeignDomain(domain) ==
    \/ domain.chainId # config.chainId
    \/ GetAddress(domain.verifyingContract) # GetAddress(config.address)

\* C2: a response signed under a domain that differs from the handler's in
\* chainId or verifying contract is rejected: verification on the handler, for
\* the address that really signed, returns false.
CrossDomainReplayRejected ==
    VerifiedOwnResponse /\ ForeignDomain(last.request.domain)
        => last.out.kind = "return" /\ last.out.value = FALSE

\* C3: verification for an expected signer equal to the zero address ends in
\* the 'Invalid address' error, before any recovery, whatever the response.
ZeroAddressGuard ==
    IsVerify /\ IsZeroAddress(last.attester)
        => /\ last.out.kind = "throw"
           /\ last.out.error = "Invalid address"
           /\ last.out.recovered = <<>>

\* C4: for an expected signer other than the zero address, verification ends
\* in a boolean, false whenever the recovered signer differs from the expected.
VerificationNeverThrows ==
    IsVerify /\ ~IsZeroAddress(last.attester)
        => /\ last.out.kind = "return"
           /\ (GetAddress(last.out.recovered[1]) # GetAddress(last.attester)
                  => last.out.value = FALSE)

\* C5: after any calls, in any interleaving and whatever they ended in, the
\* handler's config is the one its constructor was given, and the getters
\* return what a fresh handler with that config returns.
HandlerConfigInvariant ==
    /\ config = ctorConfig
    /\ last.op = "getDomainSeparator"
          => last.value = getDomainSeparator(NewHandler(ctorConfig))
    /\ last.op = "getDomainTypedData"
          => last.value = getDomainTypedData(NewHandler(ctorConfig))

\* a verification of a foreign-domain response ended in an error while two
\* sign calls were awaiting their signers
FailedVerifyDuringSign ==
    /\ BagCardinality(signCalls) = 2
    /\ IsVerify
    /\ last.out.kind = "throw"
    /\ ForeignDomain(last.request.domain)

\* every sign call in flight has asked its signer once, for a signature of
\* params under the template's domain and types; a call whose signer failed
\* has failed with the signer's error and no response, the signer asked once
SignerAskedOnce ==
    /\ \A call \in BagToSet(signCalls) :
          /\ call.invoked = 1
          /\ call.asked = [domain |-> call.types.domain, types |-> call.types.types,
                           value |-> call.params]
    /\ IsSign => last.invoked = 1
    /\ IsSign /\ last.resolved = <<>>
          => /\ last.kind = "throw"
             /\ last.error = last.signerError
             /\ last.value = <<>>

\* the latest sign call returned the template's domain, primaryType, types
\* and message and nothing else but the signature
ReturnedTemplate ==
    /\ last.kind = "return"
    /\ DOMAIN last.value[1] = {"domain", "primaryType", "types", "message", "signature"}
    /\ last.value[1].domain = last.types.domain
    /\ last.value[1].primaryType = last.types.primaryType
    /\ last.value[1].types = last.types.types
    /\ last.value[1].message = last.types.message
    /\ DOMAIN last.value[1].signature = {"r", "s", "v"}

\* a string that is a signature: hex of 65 bytes with a v byte of 0, 1 or
\* from 27 on, or hex of 64 bytes
IsSignature(raw) ==
    /\ raw.hex
    /\ \/ raw.bytes = 64
       \/ raw.bytes = 65 /\ (raw.v \in {0, 1} \/ raw.v >= 27)

\* the latest sign call returned the r and s of what its signer answered, and
\* its v: 27 or 28 for a recovery bit written as 0 or 1 or carried in s
ReturnedSplit ==
    LET raw == last.resolved[1]
        signature == last.value[1].signature
    IN  /\ signature.r = raw.r
        /\ signature.s = raw.s
        /\ signature.v = (IF raw.bytes = 64 \/ raw.v < 27 THEN 27 + raw.v ELSE raw.v)

\* C10: a sign call invokes the signer once; if the signer fails the call
\* fails with the signer's error and no response; if it succeeds the call
\* returns the template's domain, primaryType, types and message with the
\* signature split into r, s and v.
DelegatedSigningSingleShot ==
    /\ SignerAskedOnce
    /\ IsSign /\ last.resolved # <<>> => ReturnedTemplate /\ ReturnedSplit

\* C10, amended: as above when the signer succeeds with a signature; when it
\* succeeds with a string that is no signature, the call fails with the error
\* of splitSignature, which is not the signer's, and no response, the signer
\* asked once.
DelegatedSigningOfSignatures ==
    /\ SignerAskedOnce
    /\ IsSign /\ last.resolved # <<>> /\ IsSignature(last.resolved[1])
          => ReturnedTemplate /\ ReturnedSplit
    /\ IsSign /\ last.resolved # <<>> /\ ~IsSignature(last.resolved[1])
          => /\ last.kind = "throw"
             /\ last.value = <<>>
             /\ last.signerError = ""
             /\ last.error \in {"signature invalid v byte", "invalid signature string",
                                "signature missing v and recoveryParam"}

\* a signer failed and its call has failed, while another call is in flight
SignerFailureSurfaced ==
    /\ IsSign /\ last.kind = "throw" /\ last.error = "signer unreachable"
    /\ signCalls # EmptyBag

----------------------------------------------------------------------------
(* Properties of the schema registry client *)

\* C6: getSchema never returns a record whose identifier is the zero
\* bytes32; when the record read has it, getSchema ends in 'Schema not found',
\* and otherwise it returns the record that was read, unchanged.
GetSchemaNotFound ==
    regLast.op = "getSchema" /\ regLast.read # <<>>
        => /\ regLast.read[1].uuid = ZERO_BYTES32
                => /\ regLast.kind = "throw"
                   /\ regLast.error = "Schema not found"
                   /\ regLast.value = <<>>
           /\ regLast.read[1].uuid # ZERO_BYTES32
                => regLast.kind = "return" /\ regLast.value = regLast.read

\* with schemas registered, a query for an identifier the contract does not
\* hold ended in not-found
NotFoundSignalled ==
    /\ registry # {}
    /\ regLast.op = "getSchema" /\ regLast.read = <<EmptyRecord>>
    /\ regLast.kind = "throw"

\* C7: the identifier register returns for (schema, resolverAddress) is
\* getSchemaUID(schema, resolverAddress, revocable), for both values of
\* revocable.
RegisterReturnsSchemaUID ==
    regLast.op = "register" /\ regLast.kind = "return"
        => \A revocable \in BOOLEAN :
              regLast.value[1]
                  = getSchemaUID(regLast.schema, regLast.resolverAddress, revocable)

----------------------------------------------------------------------------
(* Properties of the derivations *)

UIDFields ==
    {"schema", "recipient", "attester", "time", "expirationTime", "revocable", "refUID",
     "data", "bump"}

\* the fields in which two argument tuples differ
Differing(a, b) == {f \in UIDFields : a[f] # b[f]}

\* a config with its address in the form getAddress gives it
NormConfig(cfg) == [cfg EXCEPT !.address = GetAddress(cfg.address)]

ConfigFields == {"name", "version", "chainId", "address"}
ConfigDiffering(a, b) == {f \in ConfigFields : NormConfig(a)[f] # NormConfig(b)[f]}

\* C8: the UID of every getUID call is the value the test expects of its
\* arguments, Keccak-256 of their packed encoding, so that it is a function of
\* the arguments alone and calls with the same arguments return the same UID;
\* and calls whose arguments differ in one field, be it bump alone, return
\* different UIDs.
UIDDerivation ==
    /\ uidPrev.uid = ReferenceUID(uidPrev.args)
    /\ uidCall.uid = ReferenceUID(uidCall.args)
    /\ Cardinality(Differing(uidPrev.args, uidCall.args)) = 1 => uidPrev.uid # uidCall.uid

\* two calls that differ in bump alone
BumpAloneChangesUID ==
    /\ Differing(uidPrev.args, uidCall.args) = {"bump"}
    /\ uidPrev.uid # uidCall.uid

\* C9: getDomainSeparator is Keccak-256 of the five 32-byte words (type hash,
\* name hash, version hash, chainId, address); handlers with the same config
\* return the same value and configs that differ in one of name, version,
\* chainId or address return different values.
DomainSeparatorOfConfig ==
    /\ \A call \in {sepA, sepB} :
          /\ call.separator =
                Keccak256(
                    Arrayify(Keccak256(ToUtf8Bytes(EIP712_DOMAIN)))
                    \o Arrayify(Keccak256(ToUtf8Bytes(call.config.name)))
                    \o Arrayify(Keccak256(ToUtf8Bytes(call.config.version)))
                    \o ZeroPad(BigEndian(call.config.chainId), 32)
                    \o ZeroPad(Arrayify(call.config.address.hex), 32))
          /\ call.separator = HashDomain(getDomainTypedData(call.config))
    /\ NormConfig(sepA.config) = NormConfig(sepB.config)
          => sepA.separator = sepB.separator
    /\ Cardinality(ConfigDiffering(sepA.config, sepB.config)) = 1
          => sepA.separator # sepB.separator

\* two handlers whose configs differ in the version alone
VersionAloneChangesSeparator ==
    /\ ConfigDiffering(sepA.config, sepB.config) = {"version"}
    /\ sepA.separator # sepB.separator
====
